---- MODULE Spec2Model ----
(***************************************************************************)
(* The ledger engine of transaction_tool: process_transaction and the five *)
(* handlers of src/src/processor.rs over State { transfers, clients } of   *)
(* src/src/types.rs.  Amounts (f64 in the source) are modelled as exact    *)
(* non-negative integers: floating-point rounding, NaN and negative        *)
(* amounts are outside the model.                                          *)
(***************************************************************************)
EXTENDS Integers, FiniteSets, Sequences, TLC

VARIABLES transfers, clients, panicked, run, input, status, output

vars == <<transfers, clients, panicked, run, input, status, output>>

\* The variables of the file run, which the engine alone leaves untouched.
file_vars == <<input, status, output>>

\* ------------------------------------------------------------------ bounds
MaxClient == 2
MaxTx == 2
MaxAmount == 2

ClientIds == 1..MaxClient
TxIds == 1..MaxTx
Amounts == 0..MaxAmount

\* The amount column of a dispute, resolve or chargeback row: blank (read as
\* 0.0) or any number.
RefAmounts == {0, MaxAmount}

\* ------------------------------------------------------------------- types
TransactionType == {"Deposit", "Withdrawal", "Dispute", "Resolve", "Chargeback"}

\* A parsed row.  The input has the columns type, client, tx, amount, so
\* the serde default leaves disputed false on every incoming record.
Transaction(ty, c, t, a) ==
    [transaction_type |-> ty, client_id |-> c, id |-> t, amount |-> a,
     disputed |-> FALSE]

\* A new account that starts locked.
Client_new_m(id) ==
    [id |-> id, locked |-> TRUE, available |-> 0, held |-> 0, total |-> 0]

Client_new(id) ==
    [id |-> id, locked |-> FALSE, available |-> 0, held |-> 0, total |-> 0]

State_new == [transfers |-> <<>>, clients |-> <<>>, panicked |-> FALSE]

\* HashMap::insert
Insert(m, k, v) == [x \in (DOMAIN m) \cup {k} |-> IF x = k THEN v ELSE m[x]]

\* Option::unwrap on a failed lookup: the thread panics, the fold never
\* returns a state.
Panic(state) == [state EXCEPT !.panicked = TRUE]

\* ---------------------------------------------------------------- deposit
deposit_duplicate_m(state, transaction) == FALSE

deposit_duplicate(state, transaction) ==
    transaction.id \in DOMAIN state.transfers

deposit_locked_m(client) == FALSE

deposit_locked(client) == client.locked

deposit_apply_m(client, amount) ==
    [client EXCEPT !.available = @ + amount]

deposit_apply(client, amount) ==
    [client EXCEPT !.available = @ + amount, !.total = @ + amount]

process_deposit(state, transaction) ==
    IF deposit_duplicate(state, transaction)
    THEN state
    ELSE LET cid == transaction.client_id
             clients1 == IF cid \in DOMAIN state.clients
                         THEN state.clients
                         ELSE Insert(state.clients, cid, Client_new(cid))
         IN  IF deposit_locked(clients1[cid])
             THEN [state EXCEPT !.clients = clients1]
             ELSE [state EXCEPT
                     !.clients = [clients1 EXCEPT
                         ![cid] = deposit_apply(@, transaction.amount)],
                     !.transfers = Insert(state.transfers, transaction.id,
                                          transaction)]

\* ------------------------------------------------------------- withdrawal
withdrawal_rejected_m(client, amount) ==
    client.locked \/ client.available <= amount

withdrawal_rejected_n(client, amount) == client.locked

withdrawal_rejected(client, amount) ==
    client.locked \/ client.available < amount

withdrawal_apply_m(client, amount) ==
    [client EXCEPT !.available = @ - amount]

withdrawal_apply(client, amount) ==
    [client EXCEPT !.available = @ - amount, !.total = @ - amount]

withdrawal_no_client_m(state, transaction) ==
    [state EXCEPT !.clients = Insert(state.clients, transaction.client_id,
                                     Client_new(transaction.client_id))]

\* The withdrawal of a client without an account is stored all the same.
withdrawal_no_client_n(state, transaction) ==
    [state EXCEPT !.transfers = Insert(state.transfers, transaction.id,
                                       transaction)]

withdrawal_no_client(state, transaction) == state

process_withdrawal(state, transaction) ==
    IF transaction.id \in DOMAIN state.transfers
    THEN state
    ELSE LET cid == transaction.client_id
         IN  IF cid \notin DOMAIN state.clients
             THEN withdrawal_no_client(state, transaction)
             ELSE IF withdrawal_rejected(state.clients[cid],
                                         transaction.amount)
                  THEN state
                  ELSE [state EXCEPT
                          !.clients[cid] =
                              withdrawal_apply(@, transaction.amount),
                          !.transfers = Insert(state.transfers,
                                               transaction.id, transaction)]

\* ---------------------------------------------------------------- dispute
dispute_rejected_m(target_transaction, transaction) ==
    \/ target_transaction.disputed
    \/ target_transaction.client_id # transaction.client_id

dispute_rejected_n(target_transaction, transaction) ==
    \/ target_transaction.disputed
    \/ target_transaction.transaction_type # "Deposit"

dispute_rejected(target_transaction, transaction) ==
    \/ target_transaction.disputed
    \/ target_transaction.transaction_type # "Deposit"
    \/ target_transaction.client_id # transaction.client_id

dispute_amount_m(target_transaction, transaction) == transaction.amount

dispute_amount(target_transaction, transaction) == target_transaction.amount

dispute_apply(client, amount) ==
    [client EXCEPT !.held = @ + amount, !.available = @ - amount]

dispute_not_found_m(state, transaction) ==
    [state EXCEPT !.transfers = Insert(state.transfers, transaction.id,
                       [transaction EXCEPT !.disputed = TRUE])]

dispute_not_found(state, transaction) == state

process_dispute(state, transaction) ==
    IF transaction.id \notin DOMAIN state.transfers
    THEN dispute_not_found(state, transaction)
    ELSE LET target_transaction == state.transfers[transaction.id]
             cid == target_transaction.client_id
         IN  IF dispute_rejected(target_transaction, transaction)
             THEN state
             ELSE IF cid \notin DOMAIN state.clients
                  THEN Panic(state)
                  ELSE IF state.clients[cid].locked
                       THEN state
                       ELSE [state EXCEPT
                               !.transfers[transaction.id].disputed = TRUE,
                               !.clients[cid] = dispute_apply(@,
                                   dispute_amount(target_transaction,
                                                  transaction))]

\* ---------------------------------------------------------------- resolve
resolve_rejected_m(target_transaction, transaction) ==
    target_transaction.client_id # transaction.client_id

resolve_rejected(target_transaction, transaction) ==
    \/ ~target_transaction.disputed
    \/ target_transaction.client_id # transaction.client_id

resolve_apply_m(client, amount) ==
    [client EXCEPT !.held = @ - amount, !.total = @ + amount]

resolve_apply_n(client, amount) ==
    [client EXCEPT !.available = @ + amount]

resolve_apply(client, amount) ==
    [client EXCEPT !.held = @ - amount, !.available = @ + amount]

process_resolve(state, transaction) ==
    IF transaction.id \notin DOMAIN state.transfers
    THEN state
    ELSE LET target_transaction == state.transfers[transaction.id]
             cid == target_transaction.client_id
         IN  IF resolve_rejected(target_transaction, transaction)
             THEN state
             ELSE IF cid \notin DOMAIN state.clients
                  THEN Panic(state)
                  ELSE IF state.clients[cid].locked
                       THEN state
                       ELSE [state EXCEPT
                               !.transfers[transaction.id].disputed = FALSE,
                               !.clients[cid] = resolve_apply(@,
                                   target_transaction.amount)]

\* ------------------------------------------------------------- chargeback
chargeback_rejected(target_transaction, transaction) ==
    \/ ~target_transaction.disputed
    \/ target_transaction.client_id # transaction.client_id

chargeback_apply_m(client, amount) ==
    [client EXCEPT !.locked = TRUE, !.held = @ - amount]

chargeback_apply_n(client, amount) ==
    [client EXCEPT !.locked = TRUE, !.held = @ - amount,
                   !.available = @ - amount, !.total = @ - amount - amount]

chargeback_apply(client, amount) ==
    [client EXCEPT !.locked = TRUE, !.held = @ - amount, !.total = @ - amount]

process_chargeback(state, transaction) ==
    IF transaction.id \notin DOMAIN state.transfers
    THEN state
    ELSE LET target_transaction == state.transfers[transaction.id]
             cid == target_transaction.client_id
         IN  IF chargeback_rejected(target_transaction, transaction)
             THEN state
             ELSE IF cid \notin DOMAIN state.clients
                  THEN Panic(state)
                  ELSE IF state.clients[cid].locked
                       THEN state
                       ELSE [state EXCEPT
                               !.clients[cid] = chargeback_apply(@,
                                   target_transaction.amount)]

process_transaction(state, transaction) ==
    CASE transaction.transaction_type = "Deposit" ->
            process_deposit(state, transaction)
      [] transaction.transaction_type = "Withdrawal" ->
            process_withdrawal(state, transaction)
      [] transaction.transaction_type = "Dispute" ->
            process_dispute(state, transaction)
      [] transaction.transaction_type = "Resolve" ->
            process_resolve(state, transaction)
      [] transaction.transaction_type = "Chargeback" ->
            process_chargeback(state, transaction)

\* ------------------------------------------------------------------- state
\* The State value threaded through the fold.
cur == [transfers |-> transfers, clients |-> clients, panicked |-> panicked]

Init ==
    /\ transfers = State_new.transfers
    /\ clients = State_new.clients
    /\ panicked = State_new.panicked
    /\ run = [client |-> 0, sum |-> 0, ids |-> {}, fresh |-> TRUE]
    /\ input = <<>>
    /\ status = "reading"
    /\ output = <<>>

\* One iteration of the fold: state <- process_transaction(state, record).
Apply(transaction) ==
    /\ ~panicked
    /\ LET s == process_transaction(cur, transaction)
       IN  /\ transfers' = s.transfers
           /\ clients' = s.clients
           /\ panicked' = s.panicked

Deposit ==
    \E c \in ClientIds, t \in TxIds, a \in Amounts :
        /\ Apply(Transaction("Deposit", c, t, a))
        /\ UNCHANGED <<run, file_vars>>

Withdrawal ==
    \E c \in ClientIds, t \in TxIds, a \in Amounts :
        /\ Apply(Transaction("Withdrawal", c, t, a))
        /\ UNCHANGED <<run, file_vars>>

Dispute ==
    \E c \in ClientIds, t \in TxIds, a \in RefAmounts :
        /\ Apply(Transaction("Dispute", c, t, a))
        /\ UNCHANGED <<run, file_vars>>

Resolve ==
    \E c \in ClientIds, t \in TxIds, a \in RefAmounts :
        /\ Apply(Transaction("Resolve", c, t, a))
        /\ UNCHANGED <<run, file_vars>>

Chargeback ==
    \E c \in ClientIds, t \in TxIds, a \in RefAmounts :
        /\ Apply(Transaction("Chargeback", c, t, a))
        /\ UNCHANGED <<run, file_vars>>

Next == Deposit \/ Withdrawal \/ Dispute \/ Resolve \/ Chargeback

Spec == Init /\ [][Next]_vars

\* ------------------------------------------------- deposit-run bookkeeping
\* History of the current deposits-only run on a client that had no account
\* when the run began: the client, the sum of the amounts of the run's
\* deposit records, their tx ids, and whether every one of those ids was
\* unused (not a key of transfers) when its record arrived.  A run is
\* followed up to and including its first record with a stored id.
NoRun == [client |-> 0, sum |-> 0, ids |-> {}, fresh |-> TRUE]

NextRun(state, transaction) ==
    LET c == transaction.client_id
        t == transaction.id
        unused == t \notin DOMAIN state.transfers
    IN  IF transaction.transaction_type # "Deposit"
        THEN NoRun
        ELSE IF c \notin DOMAIN state.clients
             THEN [client |-> c, sum |-> transaction.amount, ids |-> {t},
                   fresh |-> unused]
             ELSE IF run.client = c /\ run.fresh /\ t \notin run.ids
                  THEN [client |-> c, sum |-> run.sum + transaction.amount,
                        ids |-> run.ids \cup {t},
                        fresh |-> run.fresh /\ unused]
                  ELSE NoRun

RunDeposit ==
    \E c \in ClientIds, t \in TxIds, a \in Amounts :
        /\ Apply(Transaction("Deposit", c, t, a))
        /\ run' = NextRun(cur, Transaction("Deposit", c, t, a))
        /\ UNCHANGED file_vars

RunWithdrawal ==
    \E c \in ClientIds, t \in TxIds, a \in Amounts :
        /\ Apply(Transaction("Withdrawal", c, t, a))
        /\ run' = NextRun(cur, Transaction("Withdrawal", c, t, a))
        /\ UNCHANGED file_vars

RunReference ==
    \E ty \in {"Dispute", "Resolve", "Chargeback"},
       c \in ClientIds, t \in TxIds, a \in RefAmounts :
        /\ Apply(Transaction(ty, c, t, a))
        /\ run' = NextRun(cur, Transaction(ty, c, t, a))
        /\ UNCHANGED file_vars

NextWithRun == RunDeposit \/ RunWithdrawal \/ RunReference

SpecRun == Init /\ [][NextWithRun]_vars

\* ------------------------------------------------------------ the file run
\* main and process_transaction_file of src/src/main.rs: the rows of the
\* file are deserialized and folded one by one; the first row that fails to
\* deserialize ends the fold with an error.
MaxRows == 2

\* The amount column of a row: a number, blank, or text that is no number.
Blank == [tag |-> "blank", val |-> 0]
Text == [tag |-> "text", val |-> 0]
AmountFields == [tag : {"num"}, val : Amounts] \cup {Blank, Text}

Row(ty, c, t, f) == [type |-> ty, client |-> c, tx |-> t, amount |-> f]

\* Rows of the five kinds, and rows whose type column names no kind.
Rows ==
    {Row(ty, c, t, f) : ty \in {"Deposit", "Withdrawal"},
                        c \in ClientIds, t \in TxIds, f \in AmountFields}
    \cup {Row(ty, c, t, Blank) : ty \in {"Dispute", "Resolve", "Chargeback"},
                                 c \in ClientIds, t \in TxIds}
    \cup {Row("bogus", c, t, Blank) : c \in ClientIds, t \in TxIds}

\* s.parse::<f64>(): Ok(f) => Ok(f), Err(_) => Ok(0.0)
optional_amount_value(s) == IF s.tag = "num" THEN s.val ELSE 0

\* serde's Deserialize for Transaction: an unknown type is an error, the
\* amount goes through optional_amount_value, disputed takes its default.
deserialize(row) ==
    IF row.type \in TransactionType
    THEN [ok |-> TRUE,
          value |-> Transaction(row.type, row.client, row.tx,
                                optional_amount_value(row.amount))]
    ELSE [ok |-> FALSE, value |-> Transaction("Deposit", 0, 0, 0)]

\* What main prints: the client mapping on Ok, an error line on Err.
main_ok(state) == <<[kind |-> "snapshot", clients |-> state.clients]>>

main_err_m(state) ==
    <<[kind |-> "error", clients |-> <<>>],
      [kind |-> "snapshot", clients |-> state.clients]>>

main_err(state) == <<[kind |-> "error", clients |-> <<>>]>>

ReadRecord ==
    \E row \in Rows :
        /\ status = "reading"
        /\ Len(input) < MaxRows
        /\ deserialize(row).ok
        /\ Apply(deserialize(row).value)
        /\ input' = Append(input, row)
        /\ UNCHANGED <<status, output, run>>

ReadError ==
    \E row \in Rows :
        /\ status = "reading"
        /\ Len(input) < MaxRows
        /\ ~deserialize(row).ok
        /\ input' = Append(input, row)
        /\ status' = "failed"
        /\ output' = main_err(cur)
        /\ UNCHANGED <<transfers, clients, panicked, run>>

EndOfFile ==
    /\ status = "reading"
    /\ ~panicked
    /\ status' = "done"
    /\ output' = main_ok(cur)
    /\ UNCHANGED <<transfers, clients, panicked, run, input>>

NextFile == ReadRecord \/ ReadError \/ EndOfFile

SpecFile == Init /\ [][NextFile]_vars

\* try_fold over the deserialized rows, from State::new().
RECURSIVE FoldFrom(_, _)
FoldFrom(state, rows) ==
    IF rows = <<>>
    THEN state
    ELSE FoldFrom(process_transaction(state, deserialize(Head(rows)).value),
                  Tail(rows))

\* ------------------------------------------------------------ record sets
Deposits == {Transaction("Deposit", c, t, a) :
                c \in ClientIds, t \in TxIds, a \in Amounts}
Withdrawals == {Transaction("Withdrawal", c, t, a) :
                c \in ClientIds, t \in TxIds, a \in Amounts}
Disputes == {Transaction("Dispute", c, t, a) :
                c \in ClientIds, t \in TxIds, a \in RefAmounts}
Resolves == {Transaction("Resolve", c, t, a) :
                c \in ClientIds, t \in TxIds, a \in RefAmounts}
Chargebacks == {Transaction("Chargeback", c, t, a) :
                c \in ClientIds, t \in TxIds, a \in RefAmounts}
Records == Deposits \cup Withdrawals \cup Disputes \cup Resolves
              \cup Chargebacks

\* ------------------------------------------------ acceptance conditions
Unlocked(c) == c \in DOMAIN clients /\ ~clients[c].locked

DisputeAccepted(r) ==
    /\ r.id \in DOMAIN transfers
    /\ transfers[r.id].transaction_type = "Deposit"
    /\ ~transfers[r.id].disputed
    /\ transfers[r.id].client_id = r.client_id
    /\ Unlocked(r.client_id)

ChargebackAccepted(r) ==
    /\ r.id \in DOMAIN transfers
    /\ transfers[r.id].disputed
    /\ transfers[r.id].client_id = r.client_id
    /\ Unlocked(r.client_id)

WithdrawalAccepted(r) ==
    /\ r.id \notin DOMAIN transfers
    /\ Unlocked(r.client_id)
    /\ clients[r.client_id].available >= r.amount

\* ---------------------------------------------------------------- claims

\* C1: in every reachable state every client account satisfies
\* total = available + held.
C1_TotalIsAvailablePlusHeld ==
    \A c \in DOMAIN clients :
        clients[c].total = clients[c].available + clients[c].held

\* A state with funds both available and held on one account.
C1_Witness ==
    \E c \in DOMAIN clients :
        clients[c].held > 0 /\ clients[c].available > 0

\* C2: once an account is locked it stays locked, its balances and the
\* disputed flags of its stored transactions never change again, and every
\* record naming the locked client leaves the whole state unchanged.
C2_LockedStep ==
    \A c \in DOMAIN clients :
        clients[c].locked =>
            /\ c \in DOMAIN clients'
            /\ clients'[c] = clients[c]
            /\ \A t \in DOMAIN transfers :
                  transfers[t].client_id = c =>
                      /\ t \in DOMAIN transfers'
                      /\ transfers'[t].disputed = transfers[t].disputed

C2_LockedNoOp ==
    \A r \in Records :
        (r.client_id \in DOMAIN clients /\ clients[r.client_id].locked)
            => process_transaction(cur, r) = cur

C2_LockedForever == [](C2_LockedNoOp) /\ [][C2_LockedStep]_vars

\* A locked account next to an unlocked account that holds funds.
C2_Witness ==
    \E c, d \in DOMAIN clients :
        clients[c].locked /\ ~clients[d].locked /\ clients[d].total > 0

\* C3: an accepted Chargeback locks the account, decreases held and total by
\* the stored amount and leaves available (and everything else) unchanged;
\* Deposit(a), Dispute, Chargeback on a fresh client ends with
\* available = held = total = 0 and locked.
C3_ChargebackEffect ==
    /\ \A r \in Chargebacks :
          ChargebackAccepted(r) =>
              LET c == r.client_id
                  amt == transfers[r.id].amount
              IN  process_transaction(cur, r) =
                      [cur EXCEPT !.clients[c] =
                          [id |-> c, locked |-> TRUE,
                           available |-> clients[c].available,
                           held |-> clients[c].held - amt,
                           total |-> clients[c].total - amt]]
    /\ \A c \in ClientIds \ DOMAIN clients, t \in TxIds \ DOMAIN transfers,
          a \in Amounts :
          LET s1 == process_transaction(cur, Transaction("Deposit", c, t, a))
              s2 == process_transaction(s1, Transaction("Dispute", c, t, 0))
              s3 == process_transaction(s2, Transaction("Chargeback", c, t, 0))
          IN  s3.clients[c] = [id |-> c, locked |-> TRUE, available |-> 0,
                               held |-> 0, total |-> 0]

\* The end of Deposit(a), Dispute, Chargeback with a > 0.
C3_Witness ==
    \E t \in DOMAIN transfers :
        /\ transfers[t].disputed
        /\ transfers[t].amount > 0
        /\ clients[transfers[t].client_id] =
              [id |-> transfers[t].client_id, locked |-> TRUE,
               available |-> 0, held |-> 0, total |-> 0]

\* C4: an accepted Dispute immediately followed by a Resolve of the same
\* tx_id by the same client returns the engine to exactly the state before
\* the Dispute.
C4_DisputeResolveRoundTrip ==
    \A r \in Disputes :
        DisputeAccepted(r) =>
            LET s1 == process_transaction(cur, r)
            IN  /\ s1 # cur
                /\ s1.transfers[r.id].disputed
                /\ \A a \in RefAmounts :
                      process_transaction(s1,
                          Transaction("Resolve", r.client_id, r.id, a)) = cur

\* A dispute is acceptable on one deposit while another deposit of the same
\* client is already held.
C4_Witness ==
    \E r \in Disputes :
        /\ DisputeAccepted(r)
        /\ transfers[r.id].amount > 0
        /\ clients[r.client_id].held > 0

\* C5: an accepted Dispute marks the stored transaction disputed, moves the
\* stored transaction's amount (not the dispute record's) from available to
\* held and leaves total and everything else unchanged.
C5_DisputeEffect ==
    \A r \in Disputes :
        DisputeAccepted(r) =>
            LET c == r.client_id
                amt == transfers[r.id].amount
            IN  process_transaction(cur, r) =
                    [cur EXCEPT
                        !.transfers[r.id].disputed = TRUE,
                        !.clients[c] =
                          [id |-> c, locked |-> FALSE,
                           available |-> clients[c].available - amt,
                           held |-> clients[c].held + amt,
                           total |-> clients[c].total]]

\* A disputed deposit whose amount is what its unlocked account holds.
C5_Witness ==
    \E t \in DOMAIN transfers :
        /\ transfers[t].disputed
        /\ transfers[t].amount > 0
        /\ ~clients[transfers[t].client_id].locked
        /\ clients[transfers[t].client_id].held = transfers[t].amount

\* C6: a Dispute whose tx_id is not stored, or is stored for another client,
\* or is already disputed, or is a Withdrawal, leaves the state unchanged,
\* and a stored withdrawal is never flagged disputed.
C6_InvalidDisputeNoOp ==
    /\ \A r \in Disputes :
          (\/ r.id \notin DOMAIN transfers
           \/ transfers[r.id].client_id # r.client_id
           \/ transfers[r.id].disputed
           \/ transfers[r.id].transaction_type = "Withdrawal")
              => process_transaction(cur, r) = cur
    /\ \A t \in DOMAIN transfers :
          transfers[t].transaction_type = "Withdrawal"
              => ~transfers[t].disputed

\* A stored withdrawal next to a deposit under dispute.
C6_Witness ==
    \E t, u \in DOMAIN transfers :
        /\ transfers[t].transaction_type = "Withdrawal"
        /\ transfers[u].transaction_type = "Deposit"
        /\ transfers[u].disputed

\* C7: a Deposit or Withdrawal whose tx_id is already stored leaves the whole
\* state unchanged: the stored record is kept, no balance changes, no client
\* account is created.
C7_StoredNeverOverwritten ==
    \A r \in Deposits \cup Withdrawals :
        LET s == process_transaction(cur, r)
        IN  /\ r.id \in DOMAIN transfers => s = cur
            /\ \A t \in DOMAIN transfers :
                  /\ t \in DOMAIN s.transfers
                  /\ s.transfers[t] = transfers[t]

\* A stored withdrawal of a positive amount while some client has no account.
C7_Witness ==
    /\ \E t \in DOMAIN transfers :
          /\ transfers[t].transaction_type = "Withdrawal"
          /\ transfers[t].amount > 0
    /\ ClientIds \ DOMAIN clients # {}

\* C8: a Withdrawal is applied iff its tx_id is unused, its client has an
\* unlocked account and available >= amount; applied, it decreases available
\* and total by amount, keeps held and stores the record; otherwise the state
\* is unchanged.
C8_WithdrawalIff ==
    \A r \in Withdrawals :
        LET s == process_transaction(cur, r)
            c == r.client_id
        IN  IF WithdrawalAccepted(r)
            THEN /\ s # cur
                 /\ s = [cur EXCEPT
                          !.clients[c] =
                              [id |-> c, locked |-> FALSE,
                               available |-> clients[c].available - r.amount,
                               held |-> clients[c].held,
                               total |-> clients[c].total - r.amount],
                          !.transfers =
                              [t \in DOMAIN transfers \cup {r.id} |->
                                  IF t = r.id THEN r ELSE transfers[t]]]
            ELSE s = cur

\* A stored withdrawal that left funds available on its account.
C8_Witness ==
    \E t \in DOMAIN transfers :
        /\ transfers[t].transaction_type = "Withdrawal"
        /\ transfers[t].amount > 0
        /\ clients[transfers[t].client_id].available > 0

\* C9: the clients with an account are exactly the clients with a stored
\* Deposit; no Withdrawal, Dispute, Resolve or Chargeback creates an account,
\* a Deposit creates one only when it is stored, and no record removes one.
C9_ClientsAreDepositors ==
    /\ DOMAIN clients =
          {transfers[t].client_id :
              t \in {u \in DOMAIN transfers :
                        transfers[u].transaction_type = "Deposit"}}
    /\ \A r \in Records :
          LET s == process_transaction(cur, r)
          IN  /\ DOMAIN clients \subseteq DOMAIN s.clients
              /\ DOMAIN s.clients # DOMAIN clients =>
                    /\ r.transaction_type = "Deposit"
                    /\ DOMAIN s.clients = DOMAIN clients \cup {r.client_id}
                    /\ r.id \notin DOMAIN transfers
                    /\ r.id \in DOMAIN s.transfers

\* A locked account exists while another client has no account.
C9_Witness ==
    /\ \E c \in DOMAIN clients : clients[c].locked
    /\ ClientIds \ DOMAIN clients # {}

\* C10 as stated: after every step of a deposits-only run with pairwise
\* distinct tx_ids on a client that had no account, available = total = the
\* sum deposited so far, held = 0 and the account is unlocked.
C10_DepositRunAsStated ==
    run.client # 0 =>
        /\ run.client \in DOMAIN clients
        /\ clients[run.client] =
              [id |-> run.client, locked |-> FALSE, available |-> run.sum,
               held |-> 0, total |-> run.sum]

\* C10 amended: the same, for runs whose tx_ids are moreover not yet stored
\* when their deposit arrives.
C10_DepositRunFreshIds ==
    (run.client # 0 /\ run.fresh) =>
        /\ run.client \in DOMAIN clients
        /\ clients[run.client] =
              [id |-> run.client, locked |-> FALSE, available |-> run.sum,
               held |-> 0, total |-> run.sum]

\* A run of two deposits with unused ids summing to more than one amount.
C10_Witness ==
    /\ run.client # 0
    /\ run.fresh
    /\ Cardinality(run.ids) >= 2
    /\ run.sum > MaxAmount

\* --------------------------------------------- complete effect of a record
\* The state a record of each kind produces when it is accepted, written
\* from the mapping values of the input state.
EffectDefined(r) ==
    CASE r.transaction_type = "Deposit" -> TRUE
      [] r.transaction_type = "Withdrawal" -> r.client_id \in DOMAIN clients
      [] OTHER -> /\ r.id \in DOMAIN transfers
                  /\ transfers[r.id].client_id \in DOMAIN clients

Effect(r) ==
    LET c == r.client_id
        old == IF c \in DOMAIN clients THEN clients[c]
               ELSE [id |-> c, locked |-> FALSE, available |-> 0,
                     held |-> 0, total |-> 0]
        amt == IF r.id \in DOMAIN transfers THEN transfers[r.id].amount
               ELSE 0
        WithClient(v) == [x \in DOMAIN clients \cup {c} |->
                             IF x = c THEN v ELSE clients[x]]
        WithRecord == [t \in DOMAIN transfers \cup {r.id} |->
                             IF t = r.id THEN r ELSE transfers[t]]
        WithFlag(b) == [t \in DOMAIN transfers |->
                             IF t = r.id
                             THEN [transaction_type |->
                                       transfers[t].transaction_type,
                                   client_id |-> transfers[t].client_id,
                                   id |-> transfers[t].id,
                                   amount |-> transfers[t].amount,
                                   disputed |-> b]
                             ELSE transfers[t]]
        Balances(l, a, h, tot) ==
            [id |-> c, locked |-> l, available |-> a, held |-> h,
             total |-> tot]
    IN  CASE r.transaction_type = "Deposit" ->
               [transfers |-> WithRecord,
                clients |-> WithClient(Balances(old.locked,
                                old.available + r.amount, old.held,
                                old.total + r.amount)),
                panicked |-> FALSE]
          [] r.transaction_type = "Withdrawal" ->
               [transfers |-> WithRecord,
                clients |-> WithClient(Balances(old.locked,
                                old.available - r.amount, old.held,
                                old.total - r.amount)),
                panicked |-> FALSE]
          [] r.transaction_type = "Dispute" ->
               [transfers |-> WithFlag(TRUE),
                clients |-> WithClient(Balances(old.locked,
                                old.available - amt, old.held + amt,
                                old.total)),
                panicked |-> FALSE]
          [] r.transaction_type = "Resolve" ->
               [transfers |-> WithFlag(FALSE),
                clients |-> WithClient(Balances(old.locked,
                                old.available + amt, old.held - amt,
                                old.total)),
                panicked |-> FALSE]
          [] r.transaction_type = "Chargeback" ->
               [transfers |-> transfers,
                clients |-> WithClient(Balances(TRUE, old.available,
                                old.held - amt, old.total - amt)),
                panicked |-> FALSE]

\* C11: every process_transaction step is all-or-nothing: the result is the
\* input state, or the complete effect of the record's kind; no record
\* leaves a partial change (a Deposit that creates an account is stored).
C11_AllOrNothing ==
    \A r \in Records :
        LET s == process_transaction(cur, r)
        IN  \/ s = cur
            \/ EffectDefined(r) /\ s = Effect(r)

\* A locked account (its records are rejected), a client without an account
\* and an unused tx_id (a Deposit for it creates the account and is stored).
C11_Witness ==
    /\ \E c \in DOMAIN clients : clients[c].locked
    /\ ClientIds \ DOMAIN clients # {}
    /\ TxIds \ DOMAIN transfers # {}

C13_FlagStep ==
    \A t \in DOMAIN transfers :
        /\ t \in DOMAIN transfers'
        /\ (~transfers[t].disputed /\ transfers'[t].disputed) =>
              \E r \in Disputes :
                  /\ r.id = t
                  /\ DisputeAccepted(r)
                  /\ cur' = process_transaction(cur, r)
        /\ (transfers[t].disputed /\ ~transfers'[t].disputed) =>
              \E r \in Resolves :
                  /\ r.id = t
                  /\ r.client_id = transfers[t].client_id
                  /\ Unlocked(r.client_id)
                  /\ cur' = process_transaction(cur, r)
        /\ (/\ transfers[t].client_id \in DOMAIN clients
            /\ clients[transfers[t].client_id].locked) =>
              transfers'[t].disputed = transfers[t].disputed

C13_LockStep ==
    \A c \in DOMAIN clients' :
        (clients'[c].locked /\ (c \in DOMAIN clients => ~clients[c].locked))
            => \E r \in Chargebacks :
                  /\ r.client_id = c
                  /\ r.id \in DOMAIN transfers
                  /\ transfers[r.id].client_id = c
                  /\ transfers[r.id].disputed
                  /\ cur' = process_transaction(cur, r)

C13_UndisputedNoOp ==
    \A r \in Resolves \cup Chargebacks :
        (r.id \in DOMAIN transfers /\ ~transfers[r.id].disputed)
            => process_transaction(cur, r) = cur

C13_DisputeLifecycle ==
    [](C13_UndisputedNoOp) /\ [][C13_FlagStep /\ C13_LockStep]_vars

\* A locked account that still owns a second, undisputed deposit: one
\* transaction went Undisputed -> Disputed -> charged back, the other never
\* left Undisputed.
C13_Witness ==
    \E t, u \in DOMAIN transfers :
        /\ transfers[t].client_id = transfers[u].client_id
        /\ clients[transfers[t].client_id].locked
        /\ transfers[t].disputed
        /\ transfers[u].transaction_type = "Deposit"
        /\ ~transfers[u].disputed

\* C14: process_transaction is total: in every reachable state the client_id
\* of every stored transaction is a key of the client mapping, so the
\* unwrap() of the client lookup never fails and no record makes the fold
\* panic.
C14_NeverPanics ==
    /\ ~panicked
    /\ \A t \in DOMAIN transfers : transfers[t].client_id \in DOMAIN clients
    /\ \A r \in Records : ~process_transaction(cur, r).panicked

\* A chargeback and a dispute both got past the client lookup: a locked
\* account with two stored transactions flagged disputed.
C14_Witness ==
    \E t, u \in DOMAIN transfers :
        /\ t # u
        /\ transfers[t].disputed
        /\ transfers[u].disputed
        /\ transfers[t].client_id = transfers[u].client_id
        /\ clients[transfers[t].client_id].locked

\* ---------------------------------------------------- claims on the file run
NonNumericAmountRow(row) ==
    /\ row.type \in {"Deposit", "Withdrawal"}
    /\ row.amount.tag = "text"

\* C15: a Deposit or Withdrawal row whose amount is not numeric is fatal to
\* the run: the run has failed at that row, and the ledger is the fold of the
\* rows before it (the row itself was never applied).
C15_NonNumericAmountIsFatal ==
    \A i \in 1..Len(input) :
        NonNumericAmountRow(input[i]) =>
            /\ status = "failed"
            /\ i = Len(input)
            /\ cur = FoldFrom(State_new, SubSeq(input, 1, i - 1))

\* C16: a run ends in exactly one of two outcomes.  Done: no row failed to
\* deserialize, the ledger is the fold of all rows in input order and the
\* final client mapping is the one thing printed.  Failed: the last row read
\* is the first that fails to deserialize, the ledger is the fold of the rows
\* before it, and no snapshot is printed.  Nothing is printed while reading
\* and nothing happens after the run has ended.
C16_Outcome ==
    /\ status \in {"reading", "done", "failed"}
    /\ status = "reading" =>
          /\ output = <<>>
          /\ \A i \in 1..Len(input) : deserialize(input[i]).ok
          /\ cur = FoldFrom(State_new, input)
    /\ status = "done" =>
          /\ \A i \in 1..Len(input) : deserialize(input[i]).ok
          /\ cur = FoldFrom(State_new, input)
          /\ output = <<[kind |-> "snapshot",
                         clients |-> FoldFrom(State_new, input).clients]>>
    /\ status = "failed" =>
          /\ Len(input) >= 1
          /\ ~deserialize(input[Len(input)]).ok
          /\ \A i \in 1..(Len(input) - 1) : deserialize(input[i]).ok
          /\ cur = FoldFrom(State_new, SubSeq(input, 1, Len(input) - 1))
          /\ \A k \in 1..Len(output) : output[k].kind # "snapshot"
          /\ Len(output) = 1

C16_RunOutcomes == [](C16_Outcome) /\ [][status = "reading"]_vars

\* A failed run whose earlier row had created an account.
C16_Witness ==
    /\ status = "failed"
    /\ Len(input) >= 2
    /\ DOMAIN clients # {}

\* ------------------------------------------------------------ ledger sums
RECURSIVE SumAmounts(_)
SumAmounts(ts) ==
    IF ts = {}
    THEN 0
    ELSE LET t == CHOOSE x \in ts : TRUE
         IN  transfers[t].amount + SumAmounts(ts \ {t})

Owned(c) == {t \in DOMAIN transfers : transfers[t].client_id = c}

DisputedOf(c) == {t \in Owned(c) : transfers[t].disputed}

DepositsOf(c) == {t \in Owned(c) : transfers[t].transaction_type = "Deposit"}

WithdrawalsOf(c) ==
    {t \in Owned(c) : transfers[t].transaction_type = "Withdrawal"}

\* C17: every account's held is >= 0, and the held of an account that is
\* not locked is the sum of the amounts of its client's stored transactions
\* that are currently disputed.
C17_HeldIsDisputedSum ==
    \A c \in DOMAIN clients :
        /\ clients[c].held >= 0
        /\ ~clients[c].locked =>
              clients[c].held = SumAmounts(DisputedOf(c))

\* Two deposits of one unlocked client under dispute at once.
C17_Witness ==
    \E c \in DOMAIN clients :
        /\ ~clients[c].locked
        /\ Cardinality(DisputedOf(c)) >= 2
        /\ \A t \in DisputedOf(c) : transfers[t].amount > 0

\* C18 as stated: every account's available and total are >= 0.
C18_NonNegativeAsStated ==
    \A c \in DOMAIN clients :
        clients[c].available >= 0 /\ clients[c].total >= 0

\* C18 amended: available and total are >= 0 while none of the client's
\* stored transactions is flagged disputed, and the total of an account that
\* is not locked is always >= 0; in general available is no lower than minus
\* the sum of the amounts flagged disputed, and total is no lower than
\* available.
C18_NonNegativeUnlessDisputed ==
    \A c \in DOMAIN clients :
        /\ DisputedOf(c) = {} =>
              clients[c].available >= 0 /\ clients[c].total >= 0
        /\ ~clients[c].locked => clients[c].total >= 0
        /\ clients[c].available + SumAmounts(DisputedOf(c)) >= 0
        /\ clients[c].total >= clients[c].available

\* Deposit, Withdrawal of the funds, Dispute of the deposit, Chargeback: a
\* locked account whose available and total are both below zero.
C18_Witness ==
    \E c \in DOMAIN clients :
        /\ clients[c].locked
        /\ clients[c].available < 0
        /\ clients[c].total < 0
        /\ WithdrawalsOf(c) # {}

\* C19: client isolation.  A record whose client_id is c changes (or
\* creates) the account of no other client and the stored transaction of no
\* other client, also when its tx_id names a transaction of another client.
C19_ClientIsolation ==
    \A r \in Records :
        LET s == process_transaction(cur, r)
        IN  /\ \A c \in ClientIds \ {r.client_id} :
                  IF c \in DOMAIN clients
                  THEN c \in DOMAIN s.clients /\ s.clients[c] = clients[c]
                  ELSE c \notin DOMAIN s.clients
            /\ \A t \in DOMAIN transfers :
                  transfers[t].client_id # r.client_id =>
                      /\ t \in DOMAIN s.transfers
                      /\ s.transfers[t] = transfers[t]

\* Two clients with funds, one of them with a deposit under dispute that
\* the other client's records may name.
C19_Witness ==
    \E c, d \in DOMAIN clients :
        /\ c # d
        /\ DisputedOf(c) # {}
        /\ ~clients[c].locked
        /\ clients[d].available > 0

\* The ledger value of client c: the amounts of its stored Deposits minus
\* the amounts of its stored Withdrawals.
Ledger(c) == SumAmounts(DepositsOf(c)) - SumAmounts(WithdrawalsOf(c))

\* C20: ledger conservation.  The total of an account that is not locked is
\* the ledger value of its client; the total of a locked account is that
\* value minus the amount of one deposit of the client that is still flagged
\* disputed (the charged-back one).  A Chargeback that changes anything acts
\* on an account that is not locked, locks it and leaves its total at the
\* ledger value minus the amount of the deposit it names, so that at most
\* one Chargeback is accepted per client.
C20_LedgerConservation ==
    /\ \A c \in DOMAIN clients :
          IF clients[c].locked
          THEN \E t \in DisputedOf(c) \cap DepositsOf(c) :
                   clients[c].total = Ledger(c) - transfers[t].amount
          ELSE clients[c].total = Ledger(c)
    /\ \A r \in Chargebacks :
          LET s == process_transaction(cur, r)
              c == r.client_id
          IN  s # cur =>
                  /\ c \in DOMAIN clients
                  /\ ~clients[c].locked
                  /\ r.id \in DepositsOf(c)
                  /\ s.transfers = transfers
                  /\ s.clients[c].locked
                  /\ s.clients[c].total = Ledger(c) - transfers[r.id].amount

\* A locked account with stored deposits and a stored withdrawal whose
\* total differs from the ledger value by the charged-back amount.
C20_Witness ==
    \E c \in DOMAIN clients :
        /\ clients[c].locked
        /\ DepositsOf(c) # {}
        /\ WithdrawalsOf(c) # {}
        /\ clients[c].total # Ledger(c)

TypeOK ==
    /\ DOMAIN transfers \subseteq TxIds
    /\ DOMAIN clients \subseteq ClientIds
    /\ panicked \in BOOLEAN

====
